---- MODULE Spec2Model ----
(***************************************************************************)
(* The commands of survival.  The crawl command: cli.x_crawl (resume scan, *)
(* output log) driving the generator x.crawl (search request, cursor       *)
(* update, rate limit sleep, error branch).  The one-shot search:          *)
(* cli.x_search_recent.  The commands that read a log: cli.x_enrich_crawl  *)
(* with x.get_users_batch, and cli.x_dump_crawl with convert.jsonl_to_csv. *)
(* Identifiers and tokens are small naturals; None (a missing key,         *)
(* Python's None, the empty string) is 0.  The clock is an integer number  *)
(* of seconds and moves only in time.sleep.                                *)
(***************************************************************************)
EXTENDS Integers, Sequences, FiniteSets, TLC

VARIABLES
    files,        \* path -> sequence of lines: the JSONL logs on disk
    args,         \* the argparse namespace of the running x_crawl invocation
    env_token,    \* SURVIVAL_X_API_TOKEN is set
    pc,           \* where the invocation stands
    since_id,     \* crawl's local since_id
    next_token,   \* crawl's local next_token
    now,          \* time.time()
    resp,         \* the last tuple search_recent_posts returned
    step,         \* the last tuple crawl yielded
    sleep_time,   \* the last argument handed to time.sleep, when and where
    calls,        \* search_recent_posts invocations so far
    sent,         \* the HTTP GETs of this run, and the cursors of the last
    responses,    \* successful returns of search_recent_posts in this run
    emitted,      \* tuples yielded by crawl in this run
    blocked_until,\* the largest reset seen with remaining == 0 in this run
    resumed,      \* the last resume scan: the log it read, what it rebuilt
    held,         \* the cursors crawl held at its last yield
    accounts,     \* the user ids the platform resolves
    enrich,       \* the locals of the running x_enrich_crawl invocation
    dump,         \* the x_dump_crawl invocation: its input, its table
    search        \* the x_search_recent invocation: its arguments, its GET

(* the state of the commands other than crawl *)
tools == <<accounts, enrich, dump, search>>

vars == <<files, args, env_token, pc, since_id, next_token, now, resp, step,
          sleep_time, calls, sent, responses, emitted, blocked_until,
          resumed, held, tools>>

----------------------------------------------------------------------------
(* Bounds *)
MaxCalls == 2
MaxLines == 2
MaxTime == 26
MaxResultsArg == 104
MaxRecords == 3
MaxAuthors == 250

(* cli.py:186, the user ids of one lookup *)
batch_size == 100

(* cli.py:205, the second added to the wait for the reset *)
EnrichGrace == 1

(* x.py:39, the range max_results is brought into *)
MinResults == 10
MaxResults == 100

(* x.py:111, the seconds added to the wait for the reset *)
Grace == 10

None == 0
Ids == {1, 2}
Tokens == {1}
Delays == {-1, 0, 2}
Paths == {"prev.jsonl", "out.jsonl"}

(* the clock starts late enough for a reset of 0, which is what a missing  *)
(* x-rate-limit-reset header parses to, to lie more than Grace in the past *)
Epoch == Grace + 2
Soon == Epoch + 2
Lately == Epoch - 3

Max(a, b) == IF a >= b THEN a ELSE b
Min(a, b) == IF a <= b THEN a ELSE b

(* Python truthiness of an optional string *)
Truthy(v) == v # None

----------------------------------------------------------------------------
(* What the server can answer *)
Paginations == [newest_id : {None} \cup Ids, next_token : {None} \cup Tokens]
(* x.py:52-56: quota left or not; the reset ahead, just past, or 0 when the *)
(* headers are missing                                                     *)
RateLimits ==
    {[limit |-> 15, remaining |-> 1, reset |-> Soon],
     [limit |-> 0, remaining |-> 1, reset |-> 0],
     [limit |-> 15, remaining |-> 0, reset |-> Soon],
     [limit |-> 15, remaining |-> 0, reset |-> Lately],
     [limit |-> 0, remaining |-> 0, reset |-> 0]}

(* a page's posts, newest first: newest_id is the first post's id *)
PostsOf(pagination) ==
    [i \in 1..pagination.newest_id |-> pagination.newest_id + 1 - i]

Response(pagination, rate_limit) ==
    [posts |-> PostsOf(pagination), pagination |-> pagination,
     rate_limit |-> rate_limit]

UsualPagination == [newest_id |-> 1, next_token |-> None]
UsualRateLimit == [limit |-> 15, remaining |-> 1, reset |-> Soon]

(* every pagination under the usual quota, every quota on the usual page *)
Responses ==
    {Response(p, UsualRateLimit) : p \in Paginations}
    \cup {Response(UsualPagination, rl) : rl \in RateLimits}

NoResponse == [posts |-> <<>>, pagination |-> [newest_id |-> None, next_token |-> None],
               rate_limit |-> [limit |-> 0, remaining |-> 1, reset |-> 0]]

(* cli.py:105-111 and 115-120: the records x_crawl writes *)
(* the timestamp field, which no reader of the log looks at, is left out *)
crawl_msg(pagination, rate_limit) ==
    [json |-> TRUE, type |-> "crawl_step",
     pagination |-> pagination, rate_limit |-> rate_limit]

post_msg(post) ==
    [json |-> TRUE, type |-> "post", data |-> post]

(* a truncated or otherwise non-JSON line: json.loads raises JSONDecodeError *)
BadLine == [json |-> FALSE, type |-> "garbage"]

----------------------------------------------------------------------------
(* cli.py:76-92, the resume scan *)
NoStep == [json |-> TRUE, type |-> "none"]

(* dict.get(key, default) *)
Get(d, key, default) == IF key \in DOMAIN d THEN d[key] ELSE default

(* as IsCrawlStepLine, were the type not compared *)
AnyJsonLine(line) == line.json

(* cli.py:81-82: the line parses and its type is crawl_step *)
IsCrawlStepLine(line) == line.json /\ Get(line, "type", None) = "crawl_step"

(* as last_crawl_step, were the first such line kept *)
RECURSIVE first_crawl_step(_, _)
first_crawl_step(lines, last) ==
    IF lines = <<>> THEN last
    ELSE first_crawl_step(Tail(lines),
             IF last = NoStep /\ IsCrawlStepLine(Head(lines)) THEN Head(lines) ELSE last)

(* cli.py:77-85: the loop keeps the last such line *)
RECURSIVE last_crawl_step(_, _)
last_crawl_step(lines, last) ==
    IF lines = <<>> THEN last
    ELSE last_crawl_step(Tail(lines),
             IF IsCrawlStepLine(Head(lines)) THEN Head(lines) ELSE last)

(* cli.py:87-88 *)
ResumeFails(lines) == last_crawl_step(lines, NoStep) = NoStep

(* cli.py:90-92; a pagination without a key reads as None *)
NoPagination == [newest_id |-> None, next_token |-> None]

ResumeCursors(lines) ==
    LET pagination == Get(last_crawl_step(lines, NoStep), "pagination", NoPagination)
    IN [since_id |-> pagination.newest_id, next_token |-> pagination.next_token]

----------------------------------------------------------------------------
(* x.py:98-104, the cursor update after a successful response *)
(* as UpdateSinceId, were a since_id that is set kept *)
UpdateSinceIdKept(since, pagination) ==
    IF Truthy(since) THEN since ELSE pagination.newest_id

UpdateSinceId(since, pagination) ==
    IF Truthy(pagination.newest_id) THEN pagination.newest_id ELSE since

(* as UpdateNextToken, were the token cleared after every response *)
UpdateNextTokenCleared(pagination) == None

UpdateNextToken(pagination) ==
    IF Truthy(pagination.next_token) THEN pagination.next_token ELSE None

(* as SleepTime, were the quota compared with <= 1 *)
SleepTimeLowQuota(rate_limit, t, delay) ==
    IF rate_limit.remaining <= 1
    THEN (rate_limit.reset - t) + Grace
    ELSE delay

(* as SleepTime, were the quota not looked at *)
SleepTimeFixedDelay(rate_limit, t, delay) == delay

(* x.py:107-116, the argument crawl hands to time.sleep after a response *)
SleepTime(rate_limit, t, delay) ==
    IF rate_limit.remaining = 0
    THEN (rate_limit.reset - t) + Grace
    ELSE delay

(* time.sleep raises ValueError on a negative argument *)
SleepRaises(secs) == secs < 0

----------------------------------------------------------------------------
PriorPaginations ==
    {[newest_id |-> None, next_token |-> 1], [newest_id |-> 2, next_token |-> None]}

PriorLines ==
    {crawl_msg(p, UsualRateLimit) : p \in PriorPaginations}
    \cup {post_msg(1), BadLine}

PriorLogs == UNION {[1..n -> PriorLines] : n \in 0..MaxLines}

NoSleep == [secs |-> 0, at |-> 0, after |-> "none"]
NoRequest == [count |-> 0, since_id |-> None, next_token |-> None]
NoResume == [path |-> "", lines |-> <<>>, again |-> FALSE, ok |-> FALSE,
             since_id |-> None, next_token |-> None]

NoCursors == [since_id |-> None, next_token |-> None]

(* the commands other than crawl have not been run *)
NoEnrich == [pc |-> "none", input |-> "", output |-> "", author_ids |-> <<>>,
             i |-> 0, author_info |-> <<>>, batches |-> <<>>]
NoDump == [pc |-> "none", input |-> "", lines |-> <<>>, written |-> FALSE,
           fieldnames |-> {}, rows |-> <<>>]
NoParams == [count |-> 0, max_results |-> 0, since_id |-> None, next_token |-> None]
NoSearch == [pc |-> "none", max_results |-> 0, since_id |-> None,
             next_token |-> None, params |-> NoParams, errors |-> FALSE]

NoTools ==
    /\ accounts = {}
    /\ enrich = NoEnrich
    /\ dump = NoDump
    /\ search = NoSearch

Argses == [previous : {""} \cup Paths, output : {"out.jsonl"},
           since_id : {None} \cup Ids, next_token : {None} \cup Tokens,
           delay : Delays]

(* a crawl command starts; the output log does not exist yet *)
Start ==
    /\ pc = "x_crawl"
    /\ since_id = None
    /\ next_token = None
    /\ now = Epoch
    /\ resp = NoResponse
    /\ step = NoResponse
    /\ sleep_time = NoSleep
    /\ calls = 0
    /\ sent = NoRequest
    /\ responses = 0
    /\ emitted = 0
    /\ blocked_until = 0
    /\ resumed = NoResume
    /\ held = NoCursors

(* the crawl engine: any command line, no earlier log but the command's own *)
Init ==
    /\ Start
    /\ files = [p \in Paths |-> <<>>]
    /\ args \in {a \in Argses : a.previous = ""}
    /\ env_token \in BOOLEAN
    /\ NoTools

(* resuming: any earlier log, read by a command with the default cursors *)
InitResume ==
    /\ Start
    /\ \E prior \in PriorLogs :
          files = [p \in Paths |-> IF p = "prev.jsonl" THEN prior ELSE <<>>]
    /\ args \in {a \in Argses : a.previous = "prev.jsonl" /\ a.since_id = None
                                 /\ a.next_token = None /\ a.delay = 0}
    /\ env_token \in BOOLEAN
    /\ NoTools

(* as XCrawlResume, were the scan to read the output log *)
XCrawlResumeFromOutput ==
    /\ pc = "x_crawl"
    /\ args.previous # ""
    /\ LET lines == files[args.output]
           again == resumed.path = args.previous /\ resumed.lines = files[args.previous]
       IN
       IF ResumeFails(lines)
       THEN /\ pc' = "resume_error"
            /\ resumed' = [path |-> args.previous, lines |-> files[args.previous],
                           again |-> again,
                           ok |-> FALSE, since_id |-> None, next_token |-> None]
            /\ UNCHANGED <<since_id, next_token>>
       ELSE /\ pc' = "request"
            /\ since_id' = ResumeCursors(lines).since_id
            /\ next_token' = ResumeCursors(lines).next_token
            /\ resumed' = [path |-> args.previous, lines |-> files[args.previous],
                           again |-> again, ok |-> TRUE,
                           since_id |-> ResumeCursors(lines).since_id,
                           next_token |-> ResumeCursors(lines).next_token]
    /\ UNCHANGED <<files, args, env_token, now, resp, step, sleep_time, calls,
                   sent, responses, emitted, blocked_until>>
    /\ UNCHANGED <<held, tools>>

(* cli.py:64-98: x_crawl up to the first iteration of crawl.  With           *)
(* --previous the cursors come from the log, or the command fails before the *)
(* output is opened; without it they come from the command line.             *)
XCrawlResume ==
    /\ pc = "x_crawl"
    /\ args.previous # ""
    /\ LET lines == files[args.previous]
           again == resumed.path = args.previous /\ resumed.lines = lines
       IN
       IF ResumeFails(lines)
       THEN /\ pc' = "resume_error"
            /\ resumed' = [path |-> args.previous, lines |-> lines, again |-> again,
                           ok |-> FALSE, since_id |-> None, next_token |-> None]
            /\ UNCHANGED <<since_id, next_token>>
       ELSE /\ pc' = "request"
            /\ since_id' = ResumeCursors(lines).since_id
            /\ next_token' = ResumeCursors(lines).next_token
            /\ resumed' = [path |-> args.previous, lines |-> lines, again |-> again,
                           ok |-> TRUE,
                           since_id |-> ResumeCursors(lines).since_id,
                           next_token |-> ResumeCursors(lines).next_token]
    /\ UNCHANGED <<files, args, env_token, now, resp, step, sleep_time, calls,
                   sent, responses, emitted, blocked_until>>
    /\ UNCHANGED <<held, tools>>

XCrawlFresh ==
    /\ pc = "x_crawl"
    /\ args.previous = ""
    /\ pc' = "request"
    /\ since_id' = args.since_id
    /\ next_token' = args.next_token
    /\ UNCHANGED <<files, args, env_token, now, resp, step, sleep_time, calls,
                   sent, responses, emitted, blocked_until, resumed>>
    /\ UNCHANGED <<held, tools>>

(* x.py:29-31: no credential, search_recent_posts raises before any request *)
SearchNoToken ==
    /\ pc = "request"
    /\ calls < MaxCalls
    /\ ~env_token
    /\ calls' = calls + 1
    /\ pc' = "error"
    /\ UNCHANGED <<files, args, env_token, since_id, next_token, now, resp, step,
                   sleep_time, sent, responses, emitted, blocked_until, resumed>>
    /\ UNCHANGED <<held, tools>>

(* x.py:43-49: the GET carries the cursors that are set *)
Request ==
    [count |-> sent.count + 1, since_id |-> since_id, next_token |-> next_token]

(* x.py:49-50, 58: the GET fails, the status is not a success, or the body   *)
(* is not JSON                                                               *)
SearchFails ==
    /\ pc = "request"
    /\ calls < MaxCalls
    /\ env_token
    /\ calls' = calls + 1
    /\ sent' = Request
    /\ pc' = "error"
    /\ UNCHANGED <<files, args, env_token, since_id, next_token, now, resp, step,
                   sleep_time, responses, emitted, blocked_until, resumed>>
    /\ UNCHANGED <<held, tools>>

(* x.py:86-118: a successful response; the cursors move, the wait is         *)
(* computed and slept, the tuple is yielded.  A negative wait makes          *)
(* time.sleep raise inside the try block.                                    *)
SearchOk(r) ==
    /\ pc = "request"
    /\ calls < MaxCalls
    /\ env_token
    /\ LET t == now
           secs == SleepTime(r.rate_limit, t, args.delay)
       IN /\ t <= MaxTime
          /\ calls' = calls + 1
          /\ sent' = Request
          /\ resp' = r
          /\ responses' = responses + 1
          /\ since_id' = UpdateSinceId(since_id, r.pagination)
          /\ next_token' = UpdateNextToken(r.pagination)
          /\ blocked_until' = IF r.rate_limit.remaining = 0
                              THEN Max(blocked_until, r.rate_limit.reset)
                              ELSE blocked_until
          /\ sleep_time' = [secs |-> secs, at |-> t, after |-> "response"]
          /\ IF SleepRaises(secs)
             THEN /\ now' = t
                  /\ pc' = "error"
                  /\ UNCHANGED <<step, emitted, held>>
             ELSE /\ t + secs <= MaxTime
                  /\ now' = t + secs
                  /\ pc' = "yield"
                  /\ step' = r
                  /\ emitted' = emitted + 1
                  /\ held' = [since_id |-> since_id', next_token |-> next_token']
    /\ UNCHANGED <<files, args, env_token, resumed>>
    /\ UNCHANGED tools

(* as ErrorSleep, were the exception raised again *)
ErrorRaisedAgain ==
    /\ pc = "error"
    /\ pc' = "crashed"
    /\ UNCHANGED <<files, args, env_token, since_id, next_token, now, resp, step,
                   sleep_time, calls, sent, responses, emitted, blocked_until,
                   resumed>>
    /\ UNCHANGED <<held, tools>>

(* x.py:120-123: the except branch sleeps delay and loops; a negative delay  *)
(* makes that sleep raise out of the generator and the command exits 1       *)
ErrorSleep ==
    /\ pc = "error"
    /\ sleep_time' = [secs |-> args.delay, at |-> now, after |-> "error"]
    /\ IF SleepRaises(args.delay)
       THEN /\ pc' = "crashed"
            /\ now' = now
       ELSE /\ now + args.delay <= MaxTime
            /\ pc' = "request"
            /\ now' = now + args.delay
    /\ UNCHANGED <<files, args, env_token, since_id, next_token, resp, step,
                   calls, sent, responses, emitted, blocked_until, resumed>>
    /\ UNCHANGED <<held, tools>>

(* as StepRecords, were the posts written before the crawl_step record *)
StepRecordsPostsFirst(s) ==
    [i \in 1..Len(s.posts) |-> post_msg(s.posts[i])]
    \o <<crawl_msg(s.pagination, s.rate_limit)>>

(* cli.py:100-120: the body of x_crawl's for loop appends the step's records *)
StepRecords(s) ==
    <<crawl_msg(s.pagination, s.rate_limit)>>
    \o [i \in 1..Len(s.posts) |-> post_msg(s.posts[i])]

(* as WriteStep, were the generator resumed without the step being written *)
WriteStepSkipped ==
    /\ pc = "yield"
    /\ pc' = "request"
    /\ UNCHANGED <<files, args, env_token, since_id, next_token, now, resp, step,
                   sleep_time, calls, sent, responses, emitted, blocked_until,
                   resumed>>
    /\ UNCHANGED <<held, tools>>

WriteStep ==
    /\ pc = "yield"
    /\ files' = [files EXCEPT ![args.output] = @ \o StepRecords(step)]
    /\ pc' = "request"
    /\ UNCHANGED <<args, env_token, since_id, next_token, now, resp, step,
                   sleep_time, calls, sent, responses, emitted, blocked_until,
                   resumed>>
    /\ UNCHANGED <<held, tools>>

(* the operator interrupts the command between steps *)
Cancel ==
    /\ pc \in {"request", "error"}
    /\ pc' = "cancelled"
    /\ UNCHANGED <<files, args, env_token, since_id, next_token, now, resp, step,
                   sleep_time, calls, sent, responses, emitted, blocked_until,
                   resumed>>
    /\ UNCHANGED <<held, tools>>

(* the operator runs the crawl command again *)
Rerun(previous) ==
    /\ pc \in {"cancelled", "resume_error", "crashed"}
    /\ calls < MaxCalls
    /\ args' = [args EXCEPT !.previous = previous]
    /\ pc' = "x_crawl"
    /\ since_id' = None
    /\ next_token' = None
    /\ resp' = NoResponse
    /\ step' = NoResponse
    /\ sleep_time' = NoSleep
    /\ responses' = 0
    /\ emitted' = 0
    /\ blocked_until' = 0
    /\ sent' = NoRequest
    /\ UNCHANGED <<files, env_token, now, calls, resumed>>
    /\ UNCHANGED <<held, tools>>

Next ==
    \/ XCrawlResume
    \/ XCrawlFresh
    \/ SearchNoToken
    \/ SearchFails
    \/ \E r \in Responses : SearchOk(r)
    \/ ErrorSleep
    \/ WriteStep
    \/ Cancel
    \/ \E previous \in {""} \cup Paths : Rerun(previous)

Spec == Init /\ [][Next]_vars

(* the resumed command is followed for one search call fewer *)
Capped(A) == A /\ calls' < MaxCalls

NextResume ==
    \/ Capped(XCrawlResume)
    \/ Capped(XCrawlFresh)
    \/ Capped(SearchNoToken)
    \/ Capped(SearchFails)
    \/ \E r \in Responses : Capped(SearchOk(r))
    \/ Capped(ErrorSleep)
    \/ Capped(WriteStep)
    \/ Capped(Cancel)
    \/ \E previous \in {""} \cup Paths : Capped(Rerun(previous))

SpecResume == InitResume /\ [][NextResume]_vars

----------------------------------------------------------------------------
(* The one-shot search command: cli.x_search_recent calling                  *)
(* x.search_recent_posts once                                                *)

(* as Clamp, were only the upper end enforced *)
ClampUpper(max_results) == Min(max_results, MaxResults)

(* x.py:39 *)
Clamp(max_results) == Min(Max(MinResults, max_results), MaxResults)

(* x.py:37-47: the parameters of the GET *)
Params(max_results, next_token_arg, since_id_arg) ==
    [count |-> 1, max_results |-> Clamp(max_results),
     since_id |-> since_id_arg, next_token |-> next_token_arg]

(* cli.py:246-248: --max-results is any integer, the cursors are optional *)
SearchArgses ==
    [pc : {"x_search_recent"},
     max_results : (MinResults - 12)..MaxResultsArg,
     since_id : {None} \cup Ids, next_token : {None} \cup Tokens,
     params : {NoParams}, errors : {FALSE}]

InitSearch ==
    /\ Start
    /\ files = [p \in Paths |-> <<>>]
    /\ args = [previous |-> "", output |-> "out.jsonl", since_id |-> None,
               next_token |-> None, delay |-> 0]
    /\ env_token \in BOOLEAN
    /\ accounts = {}
    /\ enrich = NoEnrich
    /\ dump = NoDump
    /\ search \in SearchArgses

(* the variables of the crawl command *)
crawl_vars == <<files, args, env_token, pc, since_id, next_token, now, resp, step,
                sleep_time, calls, sent, responses, emitted, blocked_until,
                resumed, held>>

(* x.py:29-31, cli.py:48-49: no credential, the error is put in the output *)
XSearchNoToken ==
    /\ search.pc = "x_search_recent"
    /\ ~env_token
    /\ search' = [search EXCEPT !.pc = "done", !.errors = TRUE]
    /\ UNCHANGED <<crawl_vars, accounts, enrich, dump>>

(* x.py:49-50, cli.py:48-49: the GET is sent and fails *)
XSearchFails ==
    /\ search.pc = "x_search_recent"
    /\ env_token
    /\ search' = [search EXCEPT
                    !.pc = "done", !.errors = TRUE,
                    !.params = Params(search.max_results, search.next_token,
                                      search.since_id)]
    /\ UNCHANGED <<crawl_vars, accounts, enrich, dump>>

(* x.py:49-59, cli.py:41-47: the GET is sent and answered *)
XSearchOk(r) ==
    /\ search.pc = "x_search_recent"
    /\ env_token
    /\ search' = [search EXCEPT
                    !.pc = "done",
                    !.params = Params(search.max_results, search.next_token,
                                      search.since_id)]
    /\ resp' = r
    /\ UNCHANGED <<files, args, env_token, pc, since_id, next_token, now, step,
                   sleep_time, calls, sent, responses, emitted, blocked_until,
                   resumed, held, accounts, enrich, dump>>

NextSearch ==
    \/ XSearchNoToken
    \/ XSearchFails
    \/ \E r \in Responses : XSearchOk(r)

SpecSearch == InitSearch /\ [][NextSearch]_vars

----------------------------------------------------------------------------
(* The commands that read a log: cli.x_enrich_crawl with x.get_users_batch,  *)
(* cli.x_dump_crawl with convert.jsonl_to_csv, and the resume scan of        *)
(* cli.x_crawl.  A line is the record json.loads makes of it, and            *)
(* json.dumps of a record is the line of that record.                        *)

(* an empty dict, and d[key] = value *)
EmptyDict == [k \in {} |-> None]
Put(d, key, value) ==
    [k \in DOMAIN d \cup {key} |-> IF k = key THEN value ELSE d[k]]

(* x.py:40: a post as the search returns it, with tweet.fields author_id *)
PostData(id, author_id) == [id |-> id, author_id |-> author_id]

(* the records of a log: a step, posts of two authors, a post without       *)
(* author_id, a post record without data, a line that is not JSON           *)
ToolLines ==
    {crawl_msg(UsualPagination, UsualRateLimit),
     post_msg(PostData(1, 1)), post_msg(PostData(2, 2)),
     post_msg([id |-> 1]), [json |-> TRUE, type |-> "post"], BadLine}

(* a log of n posts of n authors *)
BigLog(n) == [k \in 1..n |-> post_msg(PostData(k, k))]

(* the numbers of authors around the batch size *)
AuthorCounts ==
    {batch_size - 1, batch_size, batch_size + 1, 2 * batch_size, MaxAuthors}

ToolLogs ==
    UNION {[1..n -> ToolLines] : n \in 0..MaxRecords}
    \cup {BigLog(n) : n \in AuthorCounts}

(* the platform knows no author, one author, or every author *)
AccountSets == {{}, {1}, 1..(MaxAuthors + 1)}

(* cli.py:178-179, 211-212 and convert.py:47-48: the line parses and its    *)
(* type is post                                                             *)
IsPostLine(line) == line.json /\ Get(line, "type", None) = "post"

(* as CollectAuthorIds, were the reading to end at a line that is not JSON *)
CollectAuthorIdsUntilBadLine(lines) ==
    {lines[k].data.author_id :
        k \in {k \in 1..Len(lines) :
                 /\ \A j \in 1..k : lines[j].json
                 /\ IsPostLine(lines[k])
                 /\ "author_id" \in DOMAIN Get(lines[k], "data", EmptyDict)}}

(* cli.py:174-182: the first pass collects the author ids of the posts *)
CollectAuthorIds(lines) ==
    {lines[k].data.author_id :
        k \in {k \in 1..Len(lines) :
                 /\ IsPostLine(lines[k])
                 /\ "author_id" \in DOMAIN Get(lines[k], "data", EmptyDict)}}

(* cli.py:188, list(author_ids): a set is listed in an order of its own,    *)
(* the same each time while the set is not changed                          *)
Orders == {"ascending", "descending"}

List(ids, order) ==
    LET up == SelectSeq([a \in 1..(MaxAuthors + 1) |-> a], LAMBDA a : a \in ids)
    IN IF order = "ascending" THEN up
       ELSE [k \in 1..Len(up) |-> up[Len(up) + 1 - k]]

(* as Batch, were the slice to take one more *)
BatchOneMore(author_list, i) ==
    SubSeq(author_list, i + 1, Min(i + batch_size + 1, Len(author_list)))

(* cli.py:188, list(author_ids)[i:i + batch_size] *)
Batch(author_list, i) ==
    SubSeq(author_list, i + 1, Min(i + batch_size, Len(author_list)))

(* x.py:204-219: the users the platform returns for the ids it knows *)
User(id) == [id |-> id, username |-> id, public_metrics |-> [followers_count |-> id]]

Users(batch) ==
    LET known == SelectSeq(batch, LAMBDA a : a \in accounts)
    IN [k \in 1..Len(known) |-> User(known[k])]

(* cli.py:192-196 *)
AuthorInfo(user) ==
    [follower_count |-> Get(Get(user, "public_metrics", EmptyDict),
                            "followers_count", None),
     username |-> Get(user, "username", None)]

Store(author_info, users) ==
    LET ids == {users[k].id : k \in 1..Len(users)}
    IN [a \in DOMAIN author_info \cup ids |->
          IF a \in ids
          THEN AuthorInfo(users[CHOOSE k \in 1..Len(users) : users[k].id = a])
          ELSE author_info[a]]

(* as EnrichSleep, were there no wait *)
EnrichSleepNever(rate_limit, t) == 0

(* cli.py:202-205: the seconds slept after a lookup *)
EnrichSleep(rate_limit, t) ==
    IF rate_limit.remaining = 0
    THEN Max(0, rate_limit.reset - t) + EnrichGrace
    ELSE 0

(* cli.py:213-215 *)
Enriched(data, author_info) ==
    LET author_id == Get(data.data, "author_id", None)
    IN IF author_id \in DOMAIN author_info
       THEN Put(data, "author_data", author_info[author_id])
       ELSE data

(* cli.py:208-218: the second pass.  A line that is not JSON is skipped; a  *)
(* post record without data raises KeyError at line 213, which ends the     *)
(* pass with what was written before that line.                             *)
Rewritten(lines, author_info) ==
    LET raising == {k \in 1..Len(lines) :
                      IsPostLine(lines[k]) /\ "data" \notin DOMAIN lines[k]}
        read == IF raising = {} THEN lines
                ELSE SubSeq(lines, 1, (CHOOSE k \in raising :
                                          \A j \in raising : k <= j) - 1)
        records == SelectSeq(read, AnyJsonLine)
    IN [ok |-> raising = {},
        out |-> [k \in 1..Len(records) |->
                   IF IsPostLine(records[k])
                   THEN Enriched(records[k], author_info)
                   ELSE records[k]]]

(* convert.py:51 *)
XLink(id) == <<"https://x.com/i/web/status/", id>>

(* convert.py:7-25; author_data is the one nested mapping of a post *)
flatten_dict(d) ==
    IF "author_data" \notin DOMAIN d THEN d
    ELSE [k \in (DOMAIN d \ {"author_data"})
                \cup {"author_data_follower_count", "author_data_username"} |->
            IF k = "author_data_follower_count" THEN d.author_data.follower_count
            ELSE IF k = "author_data_username" THEN d.author_data.username
            ELSE d[k]]

(* convert.py:49-56 *)
DumpPost(data) ==
    LET post == Get(data, "data", EmptyDict)
        linked == Put(post, "x_link", XLink(Get(post, "id", None)))
    IN flatten_dict(IF "author_data" \in DOMAIN data
                    THEN Put(linked, "author_data", data.author_data)
                    ELSE linked)

(* as DumpPosts, were every record that parses made a row *)
DumpRecords(lines) ==
    LET records == SelectSeq(lines, AnyJsonLine)
    IN [k \in 1..Len(records) |-> DumpPost(records[k])]

(* convert.py:43-59 *)
DumpPosts(lines) ==
    LET records == SelectSeq(lines, IsPostLine)
    IN [k \in 1..Len(records) |-> DumpPost(records[k])]

(* convert.py:66-70; the header is this set in sorted order *)
Fieldnames(posts) == UNION {DOMAIN posts[k] : k \in 1..Len(posts)}

(* a log to read: the enrichment reads prev.jsonl and writes out.jsonl, the  *)
(* export reads either, and a crawl command is resumed from prev.jsonl when *)
(* that is one of the short logs                                            *)
InitLog ==
    /\ Start
    /\ \E log \in ToolLogs :
          /\ files = [p \in Paths |-> IF p = "prev.jsonl" THEN log ELSE <<>>]
          /\ args = [previous |-> IF Len(log) <= MaxRecords THEN "prev.jsonl" ELSE "",
                     output |-> "out.jsonl", since_id |-> None,
                     next_token |-> None, delay |-> 0]
    /\ env_token \in BOOLEAN
    /\ accounts \in AccountSets
    /\ enrich = [NoEnrich EXCEPT !.pc = "x_enrich_crawl", !.input = "prev.jsonl",
                                 !.output = "out.jsonl"]
    /\ \E input \in Paths :
          dump = [NoDump EXCEPT !.pc = "x_dump_crawl", !.input = input]
    /\ search = NoSearch

(* cli.py:174-187: the first pass, then the loop over the batches, which is *)
(* not entered when there is no author                                      *)
EnrichCollect(order) ==
    /\ enrich.pc = "x_enrich_crawl"
    /\ LET author_ids == List(CollectAuthorIds(files[enrich.input]), order)
       IN enrich' = [enrich EXCEPT
                       !.author_ids = author_ids,
                       !.pc = IF Len(author_ids) > 0 THEN "batch" ELSE "rewrite"]
    /\ UNCHANGED <<crawl_vars, accounts, dump, search>>

(* x.py:194-196, cli.py:221-222: no credential, the command fails *)
EnrichNoToken ==
    /\ enrich.pc = "batch"
    /\ ~env_token
    /\ enrich' = [enrich EXCEPT !.pc = "error"]
    /\ UNCHANGED <<crawl_vars, accounts, dump, search>>

(* x.py:209-210, cli.py:221-222: the lookup is sent and fails *)
EnrichBatchFails ==
    /\ enrich.pc = "batch"
    /\ env_token
    /\ enrich' = [enrich EXCEPT
                    !.pc = "error",
                    !.batches = Append(@, [ids |-> Batch(enrich.author_ids, enrich.i),
                                           at |-> now, ok |-> FALSE,
                                           rate_limit |-> UsualRateLimit])]
    /\ UNCHANGED <<crawl_vars, accounts, dump, search>>

(* cli.py:187-205: one turn of the loop: the lookup of the next batch, its  *)
(* users stored, the wait for the reset when no quota is left               *)
EnrichBatch(rate_limit) ==
    /\ enrich.pc = "batch"
    /\ env_token
    /\ LET batch == Batch(enrich.author_ids, enrich.i)
       IN /\ enrich' = [enrich EXCEPT
                          !.author_info = Store(@, Users(batch)),
                          !.batches = Append(@, [ids |-> batch, at |-> now, ok |-> TRUE,
                                                 rate_limit |-> rate_limit]),
                          !.i = @ + batch_size,
                          !.pc = IF enrich.i + batch_size < Len(enrich.author_ids)
                                 THEN "batch" ELSE "rewrite"]
          /\ now' = now + EnrichSleep(rate_limit, now)
    /\ UNCHANGED <<files, args, env_token, pc, since_id, next_token, resp, step,
                   sleep_time, calls, sent, responses, emitted, blocked_until,
                   resumed, held, accounts, dump, search>>

(* cli.py:208-222: the second pass writes the output anew *)
EnrichRewrite ==
    /\ enrich.pc = "rewrite"
    /\ LET second == Rewritten(files[enrich.input], enrich.author_info)
       IN /\ files' = [files EXCEPT ![enrich.output] = second.out]
          /\ enrich' = [enrich EXCEPT !.pc = IF second.ok THEN "done" ELSE "error"]
    /\ UNCHANGED <<args, env_token, pc, since_id, next_token, now, resp, step,
                   sleep_time, calls, sent, responses, emitted, blocked_until,
                   resumed, held, accounts, dump, search>>

(* cli.py:128-139, convert.py:41-79: the export; without a post it raises   *)
(* before the table is opened                                               *)
XDumpCrawl ==
    /\ dump.pc = "x_dump_crawl"
    /\ LET lines == files[dump.input]
           posts == DumpPosts(lines)
       IN dump' = IF posts = <<>>
                  THEN [dump EXCEPT !.pc = "error", !.lines = lines]
                  ELSE [dump EXCEPT !.pc = "done", !.lines = lines, !.written = TRUE,
                                    !.fieldnames = Fieldnames(posts), !.rows = posts]
    /\ UNCHANGED <<crawl_vars, accounts, enrich, search>>

NextLog ==
    \/ XCrawlResume
    \/ \E order \in Orders : EnrichCollect(order)
    \/ EnrichNoToken
    \/ EnrichBatchFails
    \/ \E rate_limit \in RateLimits : EnrichBatch(rate_limit)
    \/ EnrichRewrite
    \/ XDumpCrawl

SpecLog == InitLog /\ [][NextLog]_vars

----------------------------------------------------------------------------
(* The claims *)

InLoop == pc \in {"request", "yield", "error"}

(* C1: while the crawl loop runs (delay >= 0), since_id never decreases     *)
(* from one step to the next, whatever the responses are.                   *)
C1_SinceIdNeverRegresses ==
    [][(args.delay >= 0 /\ InLoop /\ InLoop') => since_id' >= since_id]_vars

(* C2: every successful return of search_recent_posts is yielded as a step: *)
(* with delay >= 0 the loop has yielded as many steps as it has had         *)
(* responses, and the last step yielded is the last response.               *)
C2_EveryResponseEmitted ==
    args.delay >= 0 => (emitted = responses /\ step = resp)

(* C3: after a response with remaining == 0 the wait handed to time.sleep   *)
(* is max(0, reset - now) + Grace.                                          *)
C3_RateLimitedWait ==
    (sleep_time.after = "response" /\ resp.rate_limit.remaining = 0)
    => sleep_time.secs = Max(0, resp.rate_limit.reset - sleep_time.at) + Grace

(* C4: after a response with remaining > 0 the wait is delay, whatever the  *)
(* reset and the limit, and with delay >= 0 the loop has slept exactly that. *)
C4_QuotaLeftWaitsDelay ==
    (sleep_time.after = "response" /\ resp.rate_limit.remaining > 0)
    => /\ sleep_time.secs = args.delay
       /\ args.delay >= 0 => now = sleep_time.at + args.delay

C4_Witness ==
    /\ pc = "yield"
    /\ sleep_time.after = "response"
    /\ resp.rate_limit = [limit |-> 0, remaining |-> 1, reset |-> 0]
    /\ args.delay = 2
    /\ now = sleep_time.at + 2

(* C5: no search request is issued before the largest reset the loop has    *)
(* seen with remaining == 0.                                                *)
C5_NoRequestBeforeReset ==
    [][sent'.count > sent.count => now >= blocked_until]_vars

C5_Witness ==
    /\ pc = "error"
    /\ blocked_until = Soon
    /\ responses = 1
    /\ emitted = 1
    /\ sent.count = 2

(* C6: with delay >= 0 the command never exits on an exception; a failed    *)
(* search enters the except branch, which sleeps exactly delay, leaves the  *)
(* cursors alone and returns to the search, unless the operator cancels.    *)
C6_ErrorsNeverEndTheLoop ==
    /\ [](args.delay >= 0 => pc # "crashed")
    /\ [][(pc = "request" /\ calls' = calls + 1 /\ responses' = responses)
          => pc' = "error"]_vars
    /\ [][(pc = "error" /\ args.delay >= 0)
          => \/ pc' = "cancelled"
             \/ /\ pc' = "request"
                /\ sleep_time' = [secs |-> args.delay, at |-> now, after |-> "error"]
                /\ now' = now + args.delay]_vars

C6_Witness ==
    /\ pc = "request"
    /\ env_token
    /\ sent.count = 1
    /\ responses = 0
    /\ sleep_time = [secs |-> 2, at |-> Epoch, after |-> "error"]
    /\ now = Epoch + 2

(* C7: without a credential the crawl command does not go back to the       *)
(* search after the error: the loop is never at the search again having     *)
(* slept in the except branch.                                              *)
C7_MissingTokenNotRetried ==
    (~env_token /\ args.delay >= 0)
    => ~(pc = "request" /\ sleep_time.after = "error")

(* the positions of the crawl_step records of a log *)
CrawlStepIndexes(lines) ==
    {i \in 1..Len(lines) : lines[i].json /\ lines[i].type = "crawl_step"}

Last(S) == CHOOSE i \in S : \A j \in S : j <= i

(* C8: a command resumed from a log with a crawl_step record starts (it     *)
(* does not fail) with the newest_id and next_token of the last such record. *)
C8_ResumeFromLastStep ==
    LET lines == files[args.previous]
        steps == CrawlStepIndexes(lines)
    IN /\ (args.previous # "" /\ pc = "resume_error") => steps = {}
       /\ (args.previous # "" /\ pc \in {"request", "error", "cancelled"}
           /\ responses = 0)
          => /\ steps # {}
             /\ since_id = lines[Last(steps)].pagination.newest_id
             /\ next_token = lines[Last(steps)].pagination.next_token

C8_Witness ==
    LET lines == files["prev.jsonl"] IN
    /\ pc = "request"
    /\ args.previous = "prev.jsonl"
    /\ responses = 0
    /\ CrawlStepIndexes(lines) = {1, 2}
    /\ lines[1].pagination # lines[2].pagination
    /\ since_id = lines[2].pagination.newest_id
    /\ next_token = lines[2].pagination.next_token

(* C9: a command resumed from a log without a crawl_step record fails at    *)
(* once, having issued no request and written nothing, and the failed       *)
(* command does nothing more.                                               *)
C9_ResumeWithoutStepFails ==
    /\ [][(pc = "x_crawl" /\ args.previous # ""
           /\ CrawlStepIndexes(files[args.previous]) = {})
          => /\ pc' = "resume_error"
             /\ files' = files
             /\ sent' = sent
             /\ calls' = calls]_vars
    /\ [][pc = "resume_error"
          => /\ pc' = "x_crawl"
             /\ files' = files
             /\ sent'.count = 0
             /\ calls' = calls]_vars

C9_Witness ==
    /\ pc = "resume_error"
    /\ args.previous = "prev.jsonl"
    /\ files["prev.jsonl"] = <<post_msg(1), BadLine>>
    /\ sent.count = 0

C16_RequestsCarryTheCursors ==
    /\ [][responses' = responses + 1
          => /\ next_token' = resp'.pagination.next_token
             /\ since_id' = IF resp'.pagination.newest_id # None
                            THEN resp'.pagination.newest_id
                            ELSE since_id]_vars
    /\ [](responses > 0
          => /\ next_token = resp.pagination.next_token
             /\ resp.pagination.newest_id # None
                => since_id = resp.pagination.newest_id)
    /\ [][sent'.count = sent.count + 1
          => /\ sent'.since_id = since_id
             /\ sent'.next_token = next_token]_vars

C16_Witness ==
    /\ args.previous = ""
    /\ args.since_id = None
    /\ args.next_token = None
    /\ responses = 2
    /\ sent = [count |-> 2, since_id |-> 2, next_token |-> 1]
    /\ resp.pagination = [newest_id |-> None, next_token |-> None]
    /\ since_id = 2
    /\ next_token = None

IsPrefix(s, t) == Len(s) <= Len(t) /\ \A i \in 1..Len(s) : t[i] = s[i]

C18_EnrichWaitsForReset ==
    LET batches == enrich.batches
        next(k) == IF k < Len(batches) THEN batches[k + 1].at ELSE now
    IN \A k \in 1..Len(batches) :
          IF ~batches[k].ok THEN k = Len(batches) /\ enrich.pc = "error"
          ELSE IF batches[k].rate_limit.remaining = 0
          THEN /\ next(k) >= batches[k].rate_limit.reset
               /\ next(k) = batches[k].at
                            + Max(0, batches[k].rate_limit.reset - batches[k].at) + 1
          ELSE next(k) = batches[k].at

C18_Witness ==
    /\ Len(enrich.batches) = 3
    /\ enrich.batches[1].at = Epoch
    /\ enrich.batches[1].rate_limit = [limit |-> 15, remaining |-> 0, reset |-> Soon]
    /\ enrich.batches[2].at = Soon + 1
    /\ enrich.batches[2].rate_limit.remaining = 1
    /\ enrich.batches[3].at = Soon + 1

(* a command resumed from the log the earlier runs wrote, before its first   *)
(* response                                                                  *)
ResumedFromOutput ==
    /\ args.delay >= 0
    /\ args.previous = args.output
    /\ pc = "request"
    /\ responses = 0

(* C19: a command resumed from the log the cancelled run wrote starts with  *)
(* the since_id crawl held when it yielded the last step of that log.       *)
C19_ResumeRestoresSinceId ==
    ResumedFromOutput => since_id = held.since_id

(* C19, amended: it starts with that since_id when the last step of the log *)
(* carried a newest_id, and with no since_id when it carried none.          *)
C19_ResumeRestoresNewestId ==
    ResumedFromOutput
    => LET log == files[args.output]
           last == log[Last(CrawlStepIndexes(log))]
       IN IF last.pagination.newest_id # None
          THEN since_id = held.since_id
          ELSE since_id = None

C19_Witness ==
    /\ ResumedFromOutput
    /\ args.since_id = 1
    /\ files["out.jsonl"][1].pagination.newest_id = 2
    /\ CrawlStepIndexes(files["out.jsonl"]) = {1}
    /\ held.since_id = 2
    /\ since_id = 2

(* C20: an iteration of the loop that ends in the except branch (delay >= 0) *)
(* leaves since_id and next_token as they were before its request and       *)
(* yields nothing.                                                          *)
C20_FailedIterationLeavesCursors ==
    [][(args.delay >= 0 /\ pc = "request" /\ pc' = "error")
       => /\ since_id' = since_id
          /\ next_token' = next_token
          /\ emitted' = emitted
          /\ files' = files]_vars

(* the loop over the batches has ended without a failed lookup *)
LookupsDone ==
    /\ enrich.pc \in {"rewrite", "done", "error"}
    /\ enrich.i >= Len(enrich.author_ids)

(* the distinct author ids of the posts of a log *)
AuthorsOf(log) ==
    {log[k].data.author_id :
        k \in {k \in 1..Len(log) : /\ log[k].json
                                   /\ log[k].type = "post"
                                   /\ "data" \in DOMAIN log[k]
                                   /\ "author_id" \in DOMAIN log[k].data}}

(* C11: no lookup carries more than 100 ids, and once the loop has ended the *)
(* N distinct author ids of the log have been looked up in ceil(N / 100)    *)
(* calls, all but the last of exactly 100, no id twice, every id once.      *)
C11_BatchesPartitionAuthors ==
    LET authors == AuthorsOf(files[enrich.input])
        N == Cardinality(authors)
        batches == enrich.batches
        ids(k) == {batches[k].ids[j] : j \in 1..Len(batches[k].ids)}
    IN /\ \A k \in 1..Len(batches) : Len(batches[k].ids) \in 1..100
       /\ LookupsDone
          => /\ Len(batches) = (N + 99) \div 100
             /\ \A k \in 1..(Len(batches) - 1) : Len(batches[k].ids) = 100
             /\ \A k \in 1..Len(batches) : Cardinality(ids(k)) = Len(batches[k].ids)
             /\ \A k, l \in 1..Len(batches) : k # l => ids(k) \cap ids(l) = {}
             /\ UNION {ids(k) : k \in 1..Len(batches)} = authors

C11_Witness ==
    /\ enrich.pc = "done"
    /\ Cardinality(AuthorsOf(files["prev.jsonl"])) = 250
    /\ Len(enrich.batches) = 3
    /\ Len(enrich.batches[1].ids) = 100
    /\ Len(enrich.batches[2].ids) = 100
    /\ Len(enrich.batches[3].ids) = 50

(* C12: once the second pass of the enrichment has run, it has not failed   *)
(* and the output holds every record of the input that parses, in order:    *)
(* a post whose author_id is in author_info with author_data added and      *)
(* nothing else changed, any other record (a post without author_id, with   *)
(* an author not resolved, without data; a record that is no post) as it is. *)
C12_EnrichmentJoinTotal ==
    (LookupsDone /\ enrich.pc # "rewrite")
    => LET valid == SelectSeq(files[enrich.input], LAMBDA line : line.json)
           out == files[enrich.output]
           resolved(data) == /\ data.type = "post"
                             /\ "data" \in DOMAIN data
                             /\ "author_id" \in DOMAIN data.data
                             /\ data.data.author_id \in DOMAIN enrich.author_info
       IN /\ enrich.pc = "done"
          /\ Len(out) = Len(valid)
          /\ \A k \in 1..Len(valid) :
                IF resolved(valid[k])
                THEN /\ DOMAIN out[k] = DOMAIN valid[k] \cup {"author_data"}
                     /\ \A f \in DOMAIN valid[k] : out[k][f] = valid[k][f]
                     /\ out[k].author_data
                        = enrich.author_info[valid[k].data.author_id]
                ELSE out[k] = valid[k]

RemoveAt(lines, k) == SubSeq(lines, 1, k - 1) \o SubSeq(lines, k + 1, Len(lines))

BadLinesOf(lines) == {k \in 1..Len(lines) : ~lines[k].json}

(* C13: each pass over a log with a line that is not JSON ends as it does   *)
(* over the log without that line: the resume scan rebuilds the same        *)
(* cursors or fails alike, the first pass of the enrichment collects the    *)
(* same author ids, its second pass writes the same output, and the export  *)
(* makes the same table or fails alike.                                     *)
C13_MalformedLineSkipped ==
    /\ resumed.path # ""
       => \A k \in BadLinesOf(resumed.lines) :
             LET rest == RemoveAt(resumed.lines, k)
             IN /\ resumed.ok = ~ResumeFails(rest)
                /\ resumed.ok
                   => /\ resumed.since_id = ResumeCursors(rest).since_id
                      /\ resumed.next_token = ResumeCursors(rest).next_token
    /\ enrich.pc # "x_enrich_crawl"
       => \A k \in BadLinesOf(files[enrich.input]) :
             {enrich.author_ids[j] : j \in 1..Len(enrich.author_ids)}
             = CollectAuthorIds(RemoveAt(files[enrich.input], k))
    /\ (LookupsDone /\ enrich.pc # "rewrite")
       => \A k \in BadLinesOf(files[enrich.input]) :
             LET rest == RemoveAt(files[enrich.input], k)
             IN /\ (enrich.pc = "done") = Rewritten(rest, enrich.author_info).ok
                /\ files[enrich.output] = Rewritten(rest, enrich.author_info).out
    /\ dump.pc # "x_dump_crawl"
       => \A k \in BadLinesOf(dump.lines) :
             LET posts == DumpPosts(RemoveAt(dump.lines, k))
             IN /\ dump.rows = posts
                /\ dump.written = (posts # <<>>)
                /\ dump.pc = IF posts = <<>> THEN "error" ELSE "done"

C13_Witness ==
    /\ files["prev.jsonl"] = <<crawl_msg(UsualPagination, UsualRateLimit), BadLine,
                               post_msg(PostData(1, 1))>>
    /\ resumed.lines = files["prev.jsonl"]
    /\ resumed.ok
    /\ resumed.since_id = 1
    /\ enrich.pc = "done"
    /\ enrich.author_ids = <<1>>
    /\ Len(files["out.jsonl"]) = 2
    /\ dump.pc = "done"
    /\ dump.lines = files["prev.jsonl"]
    /\ Len(dump.rows) = 1

C15_MaxResultsClamped ==
    search.params.count > 0
    => LET asked == search.max_results
           carried == search.params.max_results
       IN /\ carried = IF asked < 10 THEN 10 ELSE IF asked > 100 THEN 100 ELSE asked
          /\ carried >= 10
          /\ carried <= 100
          /\ asked \in 10..100 => carried = asked

C15_Witness ==
    /\ search.pc = "done"
    /\ ~search.errors
    /\ search.max_results = 9
    /\ search.params.max_results = 10

(* the output ends with the records of the last step yielded *)
LastStepWritten ==
    LET log == files[args.output]
        from == Len(log) - Len(step.posts)
    IN /\ from >= 1
       /\ log[from] = [json |-> TRUE, type |-> "crawl_step",
                       pagination |-> step.pagination,
                       rate_limit |-> step.rate_limit]
       /\ \A i \in 1..Len(step.posts) :
             log[from + i] = [json |-> TRUE, type |-> "post", data |-> step.posts[i]]

(* C21: a yielded step is written, its crawl_step record and all its post   *)
(* records, before anything else happens; so whenever the run is not at the *)
(* yield the last step yielded is in the output, and a GET is sent only     *)
(* then: at most one step is fetched and not yet written.                   *)
C21_StepWrittenBeforeNextRequest ==
    /\ [][emitted' # emitted => (pc' = "yield" \/ emitted' = 0)]_vars
    /\ [][pc = "yield"
          => /\ pc' = "request"
             /\ sent' = sent
             /\ calls' = calls
             /\ emitted' = emitted
             /\ LastStepWritten']_vars
    /\ []((pc # "yield" /\ emitted > 0) => LastStepWritten)
    /\ [][sent'.count > sent.count
          => /\ pc = "request"
             /\ emitted > 0 => LastStepWritten]_vars

C21_Witness ==
    /\ pc = "yield"
    /\ emitted = 2
    /\ sent.count = 2
    /\ step.pagination.newest_id = 2
    /\ Len(files["out.jsonl"]) = 2
    /\ files["out.jsonl"][1].pagination.newest_id = 1
    /\ files["out.jsonl"][2].data = 1

====
